---- MODULE Spec2Model ----
(***************************************************************************)
(* A model of markdown/extensions/iheartla_code.py: the symbol graph and   *)
(* its greedy colouring (get_sym_dict, assign_colors, SymNode), the block  *)
(* aggregation and substitution of handle_iheartla_code, the context       *)
(* pre-pass (handle_context_pre), the label insertion of the post-pass     *)
(* (handle_prose_label, handle_math) and the symbol record serializer      *)
(* (get_sym_json).                                                         *)
(*                                                                         *)
(* Each part of the pipeline has a specification of its own (SpecColor,    *)
(* SpecAgg, SpecCtx, SpecLabel, SpecJson, SpecDep for the two loops of     *)
(* get_sym_dict, SpecRescan for the rescan loop of handle_math) over one   *)
(* set of variables; the variables a specification does not use keep      *)
(* their initial value.                                                    *)
(***************************************************************************)
EXTENDS Integers, Sequences, FiniteSets, TLC

VARIABLES
    pc,          \* position in the function being run
    node_dict,   \* get_sym_dict: node_dict[s] = SymNode(s).neighbors, s = 1..Len
    n_expr,      \* get_sym_dict: number of expressions consumed so far
    sym_list,    \* assign_colors: the keys of node_dict, then sorted
    cur,         \* assign_colors: number of symbols coloured so far
    pallette,    \* assign_colors: the used-palette list
    all_colors,  \* assign_colors: the base palette still to be drawn from
    color_dict,  \* assign_colors: color_dict[s], "None" while s is not a key
    color,       \* sym_dict[s].color, "None" until assigned
    text0,       \* handle_iheartla_code: the document as passed in
    text,        \* handle_iheartla_code: the document being rewritten
    scan,        \* handle_iheartla_code: items of text0 the current scan has passed
    file_dict,   \* handle_iheartla_code: the BlockData records, in insertion order
    saved,       \* the <module>.ihla files written by save_to_file
    mod_i,       \* handle_iheartla_code: BlockData records compiled so far
    expr_dict,   \* code_list[-1].expr_dict of the module being processed: its keys, in order
    index_dict,  \* index_dict[i + 1]: raw texts of occurrence i, <<>> when i is no key
    cur_index,   \* handle_iheartla_code: occurrences of the module processed so far
    stash,       \* md.htmlStash: the stored contents
    replace_dict, \* replace_dict: pairs <<block, placeholder>>
    sym_dict,    \* get_sym_json: the symbol table, in insertion order
    json_i,      \* get_sym_json: symbols serialized so far
    json_list,   \* get_sym_json: its local sym_list, one string per symbol
    sym_json,    \* get_sym_json: the returned text, <<>> until it returns
    pre_lines,   \* handle_context_pre: the document passed in, line by line
    start_index, \* handle_context_pre: characters of the text already split off
    context_list, \* handle_context_pre: '' and the context of every marker
    matched_list, \* handle_context_pre: '' and the text of every marker
    text_list,   \* handle_context_pre: the segments
    index,       \* handle_context_pre: segments appended to full_text so far
    full_text,   \* handle_context_pre: the text being put together
    seg_text0,   \* the segment handle_prose_label is first called with
    seg_context, \* the context both handlers are called with
    seg_syms,    \* the sym_list handle_math is called with
    seg_text,    \* the text as the handlers have rewritten it so far
    math_src,    \* handle_math: the text MATH_RE.finditer runs over
    math_pos,    \* handle_math: the end of the last match of MATH_RE
    pass,        \* 1 in the first application of the two handlers, 2 in the second
    once_text,   \* the text the first application returned
    wraps,       \* handle_math: replacements the rescan loop has made
    equation_list, \* get_sym_dict: the equations passed in
    eq_i,        \* get_sym_dict: equations the first loop has passed
    imp_i        \* get_sym_dict: imported names the second loop has passed

colorVars == <<node_dict, n_expr, sym_list, cur, pallette, all_colors, color_dict, color>>

aggVars == <<text0, text, scan, file_dict, saved, mod_i, expr_dict, index_dict,
             cur_index, stash, replace_dict>>

jsonVars == <<sym_dict, json_i, json_list, sym_json>>

ctxVars == <<pre_lines, start_index, context_list, matched_list, text_list, index,
             full_text>>

labelVars == <<seg_text0, seg_context, seg_syms, seg_text, math_src, math_pos, pass,
               once_text, wraps>>

depVars == <<equation_list, eq_i, imp_i>>

vars == <<pc, colorVars, aggVars, jsonVars, ctxVars, labelVars, depVars>>

\* the variables each part of the pipeline leaves alone
notColor == <<aggVars, jsonVars, ctxVars, labelVars, depVars>>
notAgg == <<colorVars, jsonVars, ctxVars, labelVars, depVars>>
notJson == <<colorVars, aggVars, ctxVars, labelVars, depVars>>
notCtx == <<colorVars, aggVars, jsonVars, labelVars, depVars>>
notLabel == <<colorVars, aggVars, jsonVars, ctxVars, depVars>>

IdleColor ==
    /\ node_dict = <<>>
    /\ n_expr = 0
    /\ sym_list = <<>>
    /\ cur = 0
    /\ pallette = <<>>
    /\ all_colors = <<>>
    /\ color_dict = <<>>
    /\ color = <<>>

IdleAgg ==
    /\ text0 = <<>>
    /\ text = <<>>
    /\ scan = 0
    /\ file_dict = <<>>
    /\ saved = <<>>
    /\ mod_i = 0
    /\ expr_dict = <<>>
    /\ index_dict = <<>>
    /\ cur_index = 0
    /\ stash = <<>>
    /\ replace_dict = {}

IdleJson ==
    /\ sym_dict = <<>>
    /\ json_i = 0
    /\ json_list = <<>>
    /\ sym_json = <<>>

IdleCtx ==
    /\ pre_lines = <<>>
    /\ start_index = 0
    /\ context_list = <<>>
    /\ matched_list = <<>>
    /\ text_list = <<>>
    /\ index = 0
    /\ full_text = <<>>

IdleDep ==
    /\ equation_list = <<>>
    /\ eq_i = 0
    /\ imp_i = 0

IdleLabel ==
    /\ seg_text0 = <<>>
    /\ seg_context = <<>>
    /\ seg_syms = <<>>
    /\ seg_text = <<>>
    /\ math_src = <<>>
    /\ math_pos = 0
    /\ pass = 0
    /\ once_text = <<>>
    /\ wraps = 0

----------------------------------------------------------------------------
(* Bounds of the model *)

\* symbols registered in node_dict (12 = two more than the base palette)
MaxSyms == 12
\* expressions (values of expr_dict) consumed by get_sym_dict
MaxExprs == 3
\* symbols that short expressions (of one or two names) range over
MaxSmall == 4

----------------------------------------------------------------------------
(* Sequence helpers *)

Range(s) == {s[i] : i \in 1..Len(s)}

Swap(arr, a, b) == [arr EXCEPT ![a] = arr[b], ![b] = arr[a]]

\* the first index of x in s, 0 when absent
RECURSIVE IndexFrom(_, _, _)
IndexFrom(s, x, i) ==
    IF i > Len(s) THEN 0
    ELSE IF s[i] = x THEN i
    ELSE IndexFrom(s, x, i + 1)

IndexOf(s, x) == IndexFrom(s, x, 1)

\* str.replace(old, new) on a string held as a sequence of characters:
\* every non-overlapping occurrence of old, from the left
RECURSIVE str_replace(_, _, _)
str_replace(s, old, new) ==
    IF Len(s) < Len(old) \/ old = <<>> THEN s
    ELSE IF SubSeq(s, 1, Len(old)) = old
         THEN new \o str_replace(SubSeq(s, Len(old) + 1, Len(s)), old, new)
         ELSE <<Head(s)>> \o str_replace(Tail(s), old, new)

\* sep.join(list) for strings held as sequences of characters
RECURSIVE str_join(_, _)
str_join(sep, list) ==
    IF list = <<>> THEN <<>>
    ELSE IF Len(list) = 1 THEN list[1]
    ELSE list[1] \o sep \o str_join(sep, Tail(list))

----------------------------------------------------------------------------
(* SymNode *)

\* an add_neighbors that appends every name it is given
AddNeighborsUntested(name, own, neighbors) == own \o neighbors

\* SymNode.add_neighbors: append every name of neighbors that is not the
\* node's own name and not yet in the list
RECURSIVE add_neighbors(_, _, _)
add_neighbors(name, own, neighbors) ==
    IF neighbors = <<>> THEN own
    ELSE LET nei == Head(neighbors)
         IN  add_neighbors(name,
                           IF nei # name /\ nei \notin Range(own)
                               THEN Append(own, nei) ELSE own,
                           Tail(neighbors))

\* get_sym_dict, "expr list": for sym in sym_list: node_dict[sym].add_neighbors(sym_list)
RECURSIVE AddExprFrom(_, _, _)
AddExprFrom(nd, expr, i) ==
    IF i > Len(expr) THEN nd
    ELSE AddExprFrom([nd EXCEPT ![expr[i]] = add_neighbors(expr[i], nd[expr[i]], expr)],
                     expr, i + 1)

----------------------------------------------------------------------------
(* assign_colors: the sort *)

Degree(nd, s) == Len(nd[s])

\* partition's for loop, with the code's 0-based low, high, i, j
RECURSIVE PartitionLoop(_, _, _, _, _, _)
PartitionLoop(nd, arr, i, j, high, pivot) ==
    IF j >= high THEN [arr |-> arr, i |-> i]
    ELSE IF Degree(nd, arr[j + 1]) <= pivot
         THEN PartitionLoop(nd, Swap(arr, i + 2, j + 1), i + 1, j + 1, high, pivot)
         ELSE PartitionLoop(nd, arr, i, j + 1, high, pivot)

\* a partition that moves nothing and takes the last place for the pivot's
PartitionInPlace(nd, arr, low, high) == [arr |-> arr, pi |-> high]

partition(nd, arr, low, high) ==
    LET pivot == Degree(nd, arr[high + 1])
        r     == PartitionLoop(nd, arr, low - 1, low, high, pivot)
    IN  [arr |-> Swap(r.arr, r.i + 2, high + 1), pi |-> r.i + 1]

RECURSIVE quickSort(_, _, _, _)
quickSort(nd, arr, low, high) ==
    IF Len(arr) = 1 THEN arr
    ELSE IF low < high
         THEN LET p == partition(nd, arr, low, high)
              IN  quickSort(nd, quickSort(nd, p.arr, low, p.pi - 1), p.pi + 1, high)
         ELSE arr

----------------------------------------------------------------------------
(* assign_colors: the palette *)

get_color_list ==
    <<"red", "YellowGreen", "DeepSkyBlue", "Gold", "HotPink",
      "Tomato", "Orange", "DarkRed", "LightCoral", "Khaki">>

\* list.pop(0): fails (IndexError) on an empty list
PopFirst(l) ==
    IF l = <<>> THEN [ok |-> FALSE, c |-> "None", rest |-> l]
    ELSE [ok |-> TRUE, c |-> Head(l), rest |-> Tail(l)]

\* a get_new_color that never refills
GetNewColorNoRefill(ac) ==
    LET p == PopFirst(ac) IN [ok |-> p.ok, c |-> p.c, all_colors |-> p.rest]

\* get_new_color(all_colors): the refill binds the parameter, a local name, so
\* the caller's list stays empty and the pop takes the head of a fresh list
get_new_color(ac) ==
    IF Len(ac) = 0
    THEN LET p == PopFirst(get_color_list)
         IN  [ok |-> p.ok, c |-> p.c, all_colors |-> ac]
    ELSE LET p == PopFirst(ac)
         IN  [ok |-> p.ok, c |-> p.c, all_colors |-> p.rest]

\* get_neighbor_colors(sym): the colours of the neighbours that are keys of color_dict
get_neighbor_colors(nd, cd, sym) ==
    {cd[nd[sym][k]] : k \in {j \in 1..Len(nd[sym]) : cd[nd[sym][j]] # "None"}}

\* the scan of pallette: the first entry not in cur_nei_colors, "None" when there is none
RECURSIVE FirstFree(_, _)
FirstFree(pal, nei_colors) ==
    IF pal = <<>> THEN "None"
    ELSE IF Head(pal) \notin nei_colors THEN Head(pal)
    ELSE FirstFree(Tail(pal), nei_colors)

----------------------------------------------------------------------------
(* get_sym_dict and assign_colors as a state machine *)

Keys == 1..Len(node_dict)

\* the symbol lists an expression may hold: every registered symbol together,
\* or one or two names (possibly the same name twice) among the first MaxSmall
ExprChoices ==
    {[i \in 1..Len(node_dict) |-> i]}
    \cup {<<a>> : a \in Keys \cap 1..MaxSmall}
    \cup {<<a, b>> : a \in Keys \cap 1..MaxSmall, b \in Keys \cap 1..MaxSmall}

InitColor ==
    /\ pc = "build"
    /\ IdleDep
    /\ IdleColor
    /\ IdleAgg
    /\ IdleJson
    /\ IdleCtx
    /\ IdleLabel

\* get_sym_dict, first loop: a parameter, definition or local function whose
\* name is not yet in sym_dict gets node_dict[name] = SymNode(name)
RegisterSymbol ==
    /\ pc = "build"
    /\ Len(node_dict) < MaxSyms
    /\ node_dict' = Append(node_dict, <<>>)
    /\ UNCHANGED <<pc, n_expr, sym_list, cur, pallette, all_colors, color_dict, color>>
    /\ UNCHANGED notColor

\* get_sym_dict, first loop: one value of equation.expr_dict
AddExpr ==
    /\ pc = "build"
    /\ n_expr < MaxExprs
    /\ \E expr \in ExprChoices :
          /\ expr # <<>>
          /\ node_dict' = AddExprFrom(node_dict, expr, 1)
    /\ n_expr' = n_expr + 1
    /\ UNCHANGED <<pc, sym_list, cur, pallette, all_colors, color_dict, color>>
    /\ UNCHANGED notColor

\* assign_colors up to the colouring loop: the keys, sorted; the empty
\* pallette and color_dict; all_colors = get_color_list()
SortSymbols ==
    /\ pc = "build"
    /\ pc' = "color"
    /\ sym_list' = quickSort(node_dict, [i \in 1..Len(node_dict) |-> i], 0, Len(node_dict) - 1)
    /\ cur' = 0
    /\ pallette' = <<>>
    /\ all_colors' = get_color_list
    /\ color_dict' = [i \in 1..Len(node_dict) |-> "None"]
    /\ color' = [i \in 1..Len(node_dict) |-> "None"]
    /\ UNCHANGED <<node_dict, n_expr>>
    /\ UNCHANGED notColor

\* one iteration of "for cur_sym in sym_list"
ColorSymbol ==
    /\ pc = "color"
    /\ cur < Len(sym_list)
    /\ LET cur_sym        == sym_list[cur + 1]
           cur_nei_colors == get_neighbor_colors(node_dict, color_dict, cur_sym)
           found          == FirstFree(pallette, cur_nei_colors)
           drawn          == get_new_color(all_colors)
       IN  IF found # "None"
           THEN /\ pallette' = Append(pallette, found)
                /\ color_dict' = [color_dict EXCEPT ![cur_sym] = found]
                /\ cur' = cur + 1
                /\ UNCHANGED <<pc, all_colors>>
           ELSE IF drawn.ok
           THEN /\ pallette' = Append(pallette, drawn.c)
                /\ color_dict' = [color_dict EXCEPT ![cur_sym] = drawn.c]
                /\ all_colors' = drawn.all_colors
                /\ cur' = cur + 1
                /\ UNCHANGED pc
           ELSE /\ pc' = "error"
                /\ UNCHANGED <<pallette, color_dict, all_colors, cur>>
    /\ UNCHANGED <<node_dict, n_expr, sym_list, color>>
    /\ UNCHANGED notColor

\* the last loop of assign_colors: sym_dict[cur_sym].color = cur_color
AssignColors ==
    /\ pc = "color"
    /\ cur = Len(sym_list)
    /\ pc' = "done"
    /\ color' = color_dict
    /\ UNCHANGED <<node_dict, n_expr, sym_list, cur, pallette, all_colors, color_dict>>
    /\ UNCHANGED notColor

NextColor == RegisterSymbol \/ AddExpr \/ SortSymbols \/ ColorSymbol \/ AssignColors

SpecColor == InitColor /\ [][NextColor]_vars

----------------------------------------------------------------------------
(* Claims about the colouring *)

Adjacent(u, v) == v \in Range(node_dict[u])

Isolated(s) == node_dict[s] = <<>>

Complete == \A u \in Keys : Range(node_dict[u]) = Keys \ {u}

\* C1: after get_sym_dict / assign_colors completes, every symbol u and every
\* v in the neighbour list of u have different colours
C1_AdjacentColorsDiffer ==
    pc = "done" => \A u \in Keys : \A v \in Keys : Adjacent(u, v) => color[u] # color[v]

\* C2: 11 pairwise adjacent symbols end with 11 pairwise distinct colours
C2_ElevenDistinctColors ==
    (pc = "done" /\ Len(node_dict) = 11 /\ Complete)
        => \A u \in Keys : \A v \in Keys : u # v => color[u] # color[v]

\* the colours introduced before the symbol at position p was processed
Introduced(p) == {pallette[k] : k \in 1..(p - 1)}

\* the colours held, when the symbol at position p is processed, by its
\* neighbours coloured before it
HeldByNeighbours(p) ==
    {pallette[k] : k \in {j \in 1..(p - 1) : Adjacent(sym_list[p], sym_list[j])}}

FirstUse(c) == CHOOSE k \in 1..Len(pallette) :
                   pallette[k] = c /\ \A j \in 1..(k - 1) : pallette[j] # c

\* C7: first fit: each symbol receives the earliest-introduced colour that no
\* already-coloured neighbour holds; only when there is none, a new colour is
\* drawn, the next one of red, YellowGreen, DeepSkyBlue, ...; symbols a, b
\* joined by one expression get red and YellowGreen
C7_FirstFitInPaletteOrder ==
    /\ pc \in {"color", "done"} =>
          \A p \in 1..cur :
             LET free == Introduced(p) \ HeldByNeighbours(p)
                 c    == color_dict[sym_list[p]]
             IN  /\ c = pallette[p]
                 /\ IF free # {}
                    THEN /\ c \in free
                         /\ \A d \in free : FirstUse(c) <= FirstUse(d)
                    ELSE /\ c \notin Introduced(p)
                         /\ Cardinality(Introduced(p)) < Len(get_color_list)
                         /\ c = get_color_list[Cardinality(Introduced(p)) + 1]
    /\ (pc = "done" /\ node_dict = << <<2>>, <<1>> >>)
          => color = <<"red", "YellowGreen">>

\* C8: assign_colors never fails; every symbol ends with a colour of the
\* palette, and every symbol without neighbours ends with red
C8_ColoringTotal ==
    /\ pc # "error"
    /\ pc = "done" =>
          \A s \in Keys : /\ color[s] \in Range(get_color_list)
                          /\ Isolated(s) => color[s] = "red"

\* C8 witness: a finished colouring with an uncoloured-neighbour-free symbol
\* processed after another one, beside symbols that do have neighbours
C8_Witness ==
    /\ pc = "done"
    /\ \E s \in Keys : Isolated(s) /\ IndexOf(sym_list, s) > 1
    /\ \E s \in Keys : ~Isolated(s)

----------------------------------------------------------------------------
(* handle_iheartla_code: the document *)

(* The document is a sequence of items: a match of INLINE_RE ("inline"), a  *)
(* match of FENCED_BLOCK_RE ("fenced"), the text between matches ("prose")  *)
(* or a placeholder of md.htmlStash ("stash", with its number).  The code   *)
(* of an item is its payload, a sequence of raw expression texts; a raw     *)
(* text is a substring of a payload when it is one of its elements.  Module *)
(* names in the model hold no '.', so no payload is read from a file.       *)

\* items of a document
MaxItems == 3

Item(kind, module, code) == [kind |-> kind, module |-> module, code |-> code, id |-> 0]

Placeholder(n) == [kind |-> "stash", module |-> "", code |-> <<>>, id |-> n]

Codes == {<<"x">>, <<"y">>, <<"x", "y">>}

Items ==
    {Item(k, m, c) : k \in {"inline", "fenced"}, m \in {"a", "b"}, c \in Codes}
    \cup {Item("inline", "", <<"x">>), Item("fenced", "a", <<>>), Item("prose", "", <<"y">>)}

Docs == UNION {[1..n -> Items] : n \in 0..MaxItems}

\* the raw-to-compiled maps the compiler may return: their keys, in insertion order
ExprDicts == {<<>>, <<"x">>, <<"y">>, <<"x", "y">>, <<"y", "x">>}

\* finditer: the next match of the pattern after item from, 0 when there is none
NextMatch(txt, kind, from) ==
    LET hits == {i \in (from + 1)..Len(txt) : txt[i].kind = kind}
    IN  IF hits = {} THEN 0 ELSE CHOOSE i \in hits : \A j \in hits : i <= j

\* '\n'.join(code_list)
RECURSIVE JoinLines(_)
JoinLines(code_list) ==
    IF code_list = <<>> THEN <<>>
    ELSE IF Len(code_list) = 1 THEN code_list[1]
    ELSE code_list[1] \o <<"\n">> \o JoinLines(Tail(code_list))

\* BlockData.get_content
get_content(bd) == JoinLines(bd.code_list)

\* BlockData([m], [code], [m.group(0)], [inline], module_name)
BlockData(m, code, block, inline, module_name) ==
    [module_name |-> module_name, match_list |-> <<m>>, code_list |-> <<code>>,
     block_list |-> <<block>>, inline_list |-> <<inline>>]

\* a BlockData.add that puts the occurrence first
BlockDataAddFirst(bd, m, code, block, inline) ==
    [bd EXCEPT !.match_list = <<m>> \o @, !.code_list = <<code>> \o @,
               !.block_list = <<block>> \o @, !.inline_list = <<inline>> \o @]

\* BlockData.add
BlockData_add(bd, m, code, block, inline) ==
    [bd EXCEPT !.match_list = Append(@, m), !.code_list = Append(@, code),
               !.block_list = Append(@, block), !.inline_list = Append(@, inline)]

ModuleIndex(fd, name) ==
    LET hits == {k \in 1..Len(fd) : fd[k].module_name = name}
    IN  IF hits = {} THEN 0 ELSE CHOOSE k \in hits : TRUE

\* the body of both scan loops for the match at item i
Collect(fd, i, inline) ==
    LET module_name == text0[i].module
        code        == text0[i].code
        k           == ModuleIndex(fd, module_name)
    IN  IF module_name # "" /\ code # <<>>
        THEN IF k = 0
             THEN Append(fd, BlockData(i, code, text0[i], inline, module_name))
             ELSE [fd EXCEPT ![k] = BlockData_add(fd[k], i, code, text0[i], inline)]
        ELSE fd

\* an attribution to the last occurrence whose payload holds raw_text
LastContaining(code_list, raw_text) ==
    LET hits == {k \in 1..Len(code_list) : raw_text \in Range(code_list[k])}
    IN  IF hits = {} THEN 0 ELSE CHOOSE k \in hits : \A j \in hits : k >= j

\* the first occurrence whose payload holds raw_text, 0 when none does
FirstContaining(code_list, raw_text) ==
    LET hits == {k \in 1..Len(code_list) : raw_text \in Range(code_list[k])}
    IN  IF hits = {} THEN 0 ELSE CHOOSE k \in hits : \A j \in hits : k <= j

\* "Find all expr for each original iheartla block"
RECURSIVE Attribute(_, _, _)
Attribute(code_list, keys, idx) ==
    IF keys = <<>> THEN idx
    ELSE LET k == FirstContaining(code_list, Head(keys))
         IN  Attribute(code_list, Tail(keys),
                       IF k = 0 THEN idx ELSE [idx EXCEPT ![k] = Append(@, Head(keys))])

\* text.index(raw_str): the offset of the first occurrence, -1 for ValueError
RECURSIVE OffsetFrom(_, _, _, _)
OffsetFrom(txt, raw_str, i, base) ==
    IF i > Len(txt) THEN 0 - 1
    ELSE IF raw_str \in Range(txt[i].code) THEN base + IndexOf(txt[i].code, raw_str)
    ELSE OffsetFrom(txt, raw_str, i + 1, base + Len(txt[i].code))

Offset(txt, raw_str) == OffsetFrom(txt, raw_str, 1, 0)

\* sorted(range(len(order_list)), key=lambda k: order_list[k]), applied to the raw texts
RECURSIVE SortByOffset(_, _)
SortByOffset(txt, raws) ==
    IF raws = <<>> THEN <<>>
    ELSE LET least == CHOOSE k \in 1..Len(raws) :
                          \A j \in 1..Len(raws) :
                              \/ Offset(txt, raws[k]) < Offset(txt, raws[j])
                              \/ (Offset(txt, raws[k]) = Offset(txt, raws[j]) /\ k <= j)
         IN  <<raws[least]>> \o
             SortByOffset(txt, [j \in 1..(Len(raws) - 1) |->
                                   IF j < least THEN raws[j] ELSE raws[j + 1]])

\* text.replace(block, content)
ReplaceAll(txt, block, content) ==
    [i \in 1..Len(txt) |-> IF txt[i] = block THEN content ELSE txt[i]]

----------------------------------------------------------------------------
(* handle_iheartla_code as a state machine *)

InitAgg ==
    /\ pc = "inline"
    /\ IdleDep
    /\ IdleColor
    /\ IdleJson
    /\ IdleCtx
    /\ IdleLabel
    /\ text0 \in Docs
    /\ text = text0
    /\ scan = 0
    /\ file_dict = <<>>
    /\ saved = <<>>
    /\ mod_i = 0
    /\ expr_dict = <<>>
    /\ index_dict = <<>>
    /\ cur_index = 0
    /\ stash = <<>>
    /\ replace_dict = {}

\* "Find all inline blocks": one match of INLINE_RE, or the end of the scan
ScanInline ==
    /\ pc = "inline"
    /\ LET i == NextMatch(text0, "inline", scan)
       IN  IF i = 0
           THEN pc' = "fenced" /\ scan' = 0 /\ UNCHANGED file_dict
           ELSE pc' = pc /\ scan' = i /\ file_dict' = Collect(file_dict, i, TRUE)
    /\ UNCHANGED <<text0, text, saved, mod_i, expr_dict, index_dict, cur_index,
                   stash, replace_dict>>
    /\ UNCHANGED notAgg

\* "Find all blocks": one match of FENCED_BLOCK_RE, or the end of the scan
ScanFenced ==
    /\ pc = "fenced"
    /\ LET i == NextMatch(text0, "fenced", scan)
       IN  IF i = 0
           THEN pc' = "save" /\ scan' = 0 /\ UNCHANGED file_dict
           ELSE pc' = pc /\ scan' = i /\ file_dict' = Collect(file_dict, i, FALSE)
    /\ UNCHANGED <<text0, text, saved, mod_i, expr_dict, index_dict, cur_index,
                   stash, replace_dict>>
    /\ UNCHANGED notAgg

\* "Save to file": the aggregate source of every module
SaveSources ==
    /\ pc = "save"
    /\ pc' = "compile"
    /\ saved' = [k \in 1..Len(file_dict) |->
                    [name |-> file_dict[k].module_name,
                     source |-> JoinLines(file_dict[k].code_list)]]
    /\ UNCHANGED <<text0, text, scan, file_dict, mod_i, expr_dict, index_dict,
                   cur_index, stash, replace_dict>>
    /\ UNCHANGED notAgg

\* compile_la_content on the next module's content, whatever map it returns,
\* and the attribution of the map's raw texts to the module's occurrences
Compile ==
    /\ pc = "compile"
    /\ mod_i < Len(file_dict)
    /\ \E ed \in ExprDicts :
          /\ expr_dict' = ed
          /\ index_dict' = Attribute(file_dict[mod_i + 1].code_list, ed,
                                     [k \in 1..Len(file_dict[mod_i + 1].code_list) |-> <<>>])
    /\ cur_index' = 0
    /\ pc' = "replace"
    /\ UNCHANGED <<text0, text, scan, file_dict, saved, mod_i, stash, replace_dict>>
    /\ UNCHANGED notAgg

\* "Replace math code": one occurrence of the module; index_dict[cur_index]
\* raises KeyError when nothing was attributed to the occurrence
Replace ==
    /\ pc = "replace"
    /\ cur_index < Len(file_dict[mod_i + 1].code_list)
    /\ LET bd      == file_dict[mod_i + 1]
           k       == cur_index + 1
           raws    == index_dict[k]
           content == IF Len(raws) = 1 THEN raws ELSE SortByOffset(text, raws)
           holder  == Placeholder(Len(stash) + 1)
       IN  IF raws = <<>>
           THEN /\ pc' = "KeyError"
                /\ UNCHANGED <<text, stash, replace_dict, cur_index>>
           ELSE IF Len(raws) > 1 /\ \E r \in Range(raws) : Offset(text, r) < 0
           THEN /\ pc' = "ValueError"
                /\ UNCHANGED <<text, stash, replace_dict, cur_index>>
           ELSE /\ stash' = Append(stash, [module |-> bd.module_name,
                                           inline |-> bd.inline_list[k],
                                           content |-> content])
                /\ text' = ReplaceAll(text, bd.block_list[k], holder)
                /\ replace_dict' =
                       {e \in replace_dict : e[1] # bd.block_list[k]}
                       \cup {<<bd.block_list[k], holder>>}
                /\ cur_index' = cur_index + 1
                /\ pc' = pc
    /\ UNCHANGED <<text0, scan, file_dict, saved, mod_i, expr_dict, index_dict>>
    /\ UNCHANGED notAgg

\* the end of "for cur_index": on to the next module
NextModule ==
    /\ pc = "replace"
    /\ cur_index = Len(file_dict[mod_i + 1].code_list)
    /\ mod_i' = mod_i + 1
    /\ pc' = "compile"
    /\ UNCHANGED <<text0, text, scan, file_dict, saved, expr_dict, index_dict,
                   cur_index, stash, replace_dict>>
    /\ UNCHANGED notAgg

\* save_code and return text, equation_dict, replace_dict
ReturnText ==
    /\ pc = "compile"
    /\ mod_i = Len(file_dict)
    /\ pc' = "done"
    /\ UNCHANGED aggVars
    /\ UNCHANGED notAgg

NextAgg ==
    ScanInline \/ ScanFenced \/ SaveSources \/ Compile \/ Replace \/ NextModule \/ ReturnText

SpecAgg == InitAgg /\ [][NextAgg]_vars

----------------------------------------------------------------------------
(* Claims about handle_iheartla_code *)

\* the occurrences handle_iheartla_code collects: a module name and a payload
Collected(i) ==
    /\ text0[i].kind \in {"inline", "fenced"}
    /\ text0[i].module # ""
    /\ text0[i].code # <<>>

\* an increasing sequence of the elements of a set of numbers
RECURSIVE Ascending(_)
Ascending(S) ==
    IF S = {} THEN <<>>
    ELSE LET least == CHOOSE x \in S : \A y \in S : x <= y
         IN  <<least>> \o Ascending(S \ {least})

\* the collected occurrences of a module in one scan family, in document order
OccurrencesOf(module, kind) ==
    Ascending({i \in 1..Len(text0) :
                  Collected(i) /\ text0[i].module = module /\ text0[i].kind = kind})

\* the number of characters before payload j of an aggregate, separators included
RECURSIVE StartOf(_, _)
StartOf(occ, j) ==
    IF j = 1 THEN 0 ELSE StartOf(occ, j - 1) + Len(text0[occ[j - 1]].code) + 1

Ended == pc \in {"done", "KeyError", "ValueError"}

\* C3: when handle_iheartla_code ends, every collected occurrence has had its
\* raw text replaced by one stash placeholder of its own: none is left
\* unsubstituted and none is substituted twice
C3_EveryOccurrenceReplacedOnce ==
    Ended =>
       \A i \in 1..Len(text0) :
          Collected(i) =>
             /\ text[i].kind = "stash"
             /\ Cardinality({n \in 1..Len(stash) : text[i] = Placeholder(n)}) = 1
             /\ \A j \in 1..Len(text0) : (Collected(j) /\ j # i) => text[j] # text[i]

\* C4: an occurrence with no raw text attributed to it does not make
\* handle_iheartla_code raise: it is skipped, its raw text stays in the
\* document, and the occurrences that have raw texts are substituted
C4_UnattributedOccurrenceSkipped ==
    /\ pc # "KeyError"
    /\ pc = "replace" =>
          \A k \in 1..cur_index :
             LET i == file_dict[mod_i + 1].match_list[k]
             IN  IF index_dict[k] = <<>>
                 THEN text[i] = text0[i]
                 ELSE text[i].kind = "stash"

----------------------------------------------------------------------------
(* get_sym_json *)

(* Strings are sequences of characters, BS being one backslash and BT one  *)
(* backtick.  A literal of the format strings, which holds neither, is one *)
(* element.                                                                *)

BS == "\\"
BT == "BACKTICK"

\* characters of a symbol name or description
MaxStr == 2

Strings == UNION {[1..n -> {"a", BS, BT}] : n \in 1..MaxStr}

\* sym_eq_data.desc: a string, or None
None == [none |-> TRUE, str |-> <<>>]

Str(s) == [none |-> FALSE, str |-> s]

Descs == {Str(<<"a">>), Str(<<BS>>), Str(<<BT>>), Str(<<"a", BS>>), None}

UsedLists == {<<>>, << <<"u">> >>, << <<"u">>, <<"v">> >>}

SymEquationData(desc, used_list) ==
    [la_type |-> <<"T">>, desc |-> desc, module_name |-> <<"m">>,
     is_defined |-> TRUE, used_list |-> used_list]

SymData(sym_name, sym_equation_list) ==
    [sym_name |-> sym_name, sym_equation_list |-> sym_equation_list]

\* the symbol tables get_sym_json is given: one symbol with one or two
\* records, or two symbols with one record each
SymDicts ==
    {<<SymData(n, <<SymEquationData(d, u)>>)>> : n \in Strings, d \in Descs, u \in UsedLists}
    \cup {<<SymData(n, <<SymEquationData(d, <<>>), SymEquationData(e, <<>>)>>)>> :
             n \in {<<BS>>, <<"a", BT>>}, d \in Descs, e \in Descs}
    \cup {<<SymData(n, <<SymEquationData(d, <<>>)>>), SymData(k, <<SymEquationData(d, <<>>)>>)>> :
             n \in {<<BS>>, <<"a">>}, k \in {<<"a", BS>>, <<BT>>}, d \in Descs}

\* '{}'.format(x): None is written as the word None
Format(x) == IF x.none THEN <<"N", "o", "n", "e">> ELSE x.str

\* used_list_str
used_list_str(used_list) ==
    IF Len(used_list) > 0
    THEN <<"\"">> \o str_join(<<"\",\"">>, used_list) \o <<"\"">>
    ELSE <<"[]">>

\* one element of eq_data_list
EqDataStr(e) ==
    <<"{\"desc\":\"">> \o Format(e.desc) \o <<"\", \"type_info\":">> \o e.la_type
    \o <<", \"def_module\":\"">> \o e.module_name \o <<"\", \"is_defined\":">>
    \o <<IF e.is_defined THEN "true" ELSE "false">> \o <<", \"used_equations\":">>
    \o used_list_str(e.used_list) \o <<"}">>

\* a key escape that doubles each backslash
EscapeKeyDoubled(sym) == str_replace(sym, <<BS>>, <<BS, BS>>)

\* sym.replace('\\', '\\\\\\\\'): the replacement literal holds four backslashes
EscapeKey(sym) == str_replace(sym, <<BS>>, <<BS, BS, BS, BS>>)

\* one element of sym_list
SymStr(sd) ==
    <<"\"">> \o EscapeKey(sd.sym_name) \o <<"\":[">>
    \o str_join(<<",">>, [k \in 1..Len(sd.sym_equation_list) |->
                             EqDataStr(sd.sym_equation_list[k])])
    \o <<"]">>

InitJson ==
    /\ pc = "json"
    /\ IdleDep
    /\ IdleColor
    /\ IdleAgg
    /\ IdleCtx
    /\ IdleLabel
    /\ sym_dict \in SymDicts
    /\ json_i = 0
    /\ json_list = <<>>
    /\ sym_json = <<>>

\* one iteration of "for sym, sym_data in sym_dict.items()"
SerializeSymbol ==
    /\ pc = "json"
    /\ json_i < Len(sym_dict)
    /\ json_list' = Append(json_list, SymStr(sym_dict[json_i + 1]))
    /\ json_i' = json_i + 1
    /\ UNCHANGED <<pc, sym_dict, sym_json>>
    /\ UNCHANGED notJson

\* content = '{...}'.format(','.join(sym_list)); content.replace('`', '')
ReturnJson ==
    /\ pc = "json"
    /\ json_i = Len(sym_dict)
    /\ sym_json' = str_replace(<<"{">> \o str_join(<<",">>, json_list) \o <<"}">>, <<BT>>, <<>>)
    /\ pc' = "done"
    /\ UNCHANGED <<sym_dict, json_i, json_list>>
    /\ UNCHANGED notJson

NextJson == SerializeSymbol \/ ReturnJson

SpecJson == InitJson /\ [][NextJson]_vars

----------------------------------------------------------------------------
(* Claims about get_sym_json *)

\* s with every backslash written n times and every backtick dropped
RECURSIVE Escaped(_, _)
Escaped(s, n) ==
    IF s = <<>> THEN <<>>
    ELSE (IF Head(s) = BS THEN [k \in 1..n |-> BS]
          ELSE IF Head(s) = BT THEN <<>>
          ELSE <<Head(s)>>) \o Escaped(Tail(s), n)

\* the places of a literal in the returned text, in order
PlacesOf(literal) == Ascending({p \in 1..Len(sym_json) : sym_json[p] = literal})

\* the key of the i-th symbol as written: what stands between the quote that
\* opens it and the literal that closes it
KeyWritten(i) ==
    LET close == PlacesOf("\":[")[i]
        open  == CHOOSE p \in 1..(close - 1) :
                     /\ sym_json[p] = "\""
                     /\ \A q \in (p + 1)..(close - 1) : sym_json[q] # "\""
    IN  SubSeq(sym_json, open + 1, close - 1)

\* the description of the j-th record as written
DescWritten(j) ==
    LET open  == PlacesOf("{\"desc\":\"")[j]
        close == CHOOSE p \in (open + 1)..Len(sym_json) :
                     /\ sym_json[p] = "\", \"type_info\":"
                     /\ \A q \in (open + 1)..(p - 1) : sym_json[q] # "\", \"type_info\":"
    IN  SubSeq(sym_json, open + 1, close - 1)

\* the records of all symbols, in the order they are written
RECURSIVE RecordsFrom(_)
RecordsFrom(sd) ==
    IF sd = <<>> THEN <<>> ELSE Head(sd).sym_equation_list \o RecordsFrom(Tail(sd))

Records == RecordsFrom(sym_dict)

\* every backtick is gone; each key holds n1 backslashes per backslash of the
\* name, each description n2 per backslash of the description
EscapedAs(n1, n2) ==
    /\ BT \notin Range(sym_json)
    /\ Len(PlacesOf("\":[")) = Len(sym_dict)
    /\ \A i \in 1..Len(sym_dict) : KeyWritten(i) = Escaped(sym_dict[i].sym_name, n1)
    /\ Len(PlacesOf("{\"desc\":\"")) = Len(Records)
    /\ \A j \in 1..Len(Records) : DescWritten(j) = Escaped(Format(Records[j].desc), n2)

\* C10 as claimed: in the serialized record every backtick is removed and
\* every backslash is doubled, in the keys and in the descriptions
C10_BackslashesDoubled == (pc = "done") => EscapedAs(2, 2)

\* C10 as amended: every backtick is removed; each backslash of a symbol
\* name becomes four backslashes in its key; the backslashes of a
\* description are written as they are, one for one
C10_KeysQuadrupledDescsUnescaped == (pc = "done") => EscapedAs(4, 1)

\* C10 witness: a written record whose key and description both come from
\* texts holding a backslash, the name holding a backtick too
C10_Witness ==
    /\ pc = "done"
    /\ \E i \in 1..Len(sym_dict) :
          /\ BS \in Range(sym_dict[i].sym_name)
          /\ BT \in Range(sym_dict[i].sym_name)
          /\ \E e \in Range(sym_dict[i].sym_equation_list) :
                ~e.desc.none /\ BS \in Range(e.desc.str)

----------------------------------------------------------------------------
(* handle_context_pre and its three handlers.  A text is a sequence of     *)
(* characters; the heart, a fence of three tildes, the word iheartla and   *)
(* the three fixed parts of a span tag each stand as one character: no     *)
(* pattern of the pre-pass matches a part of one of them, but for the word *)
(* of a context, which the blank in the opening of a span tag ends.        *)

Heart == "<3"
Fence == "~~~"
SpanOpen == "<span class=\"def:"
SpanClose == "\">"
SpanEnd == "</span>"

\* lines a document is made of
MaxLines == 4

\* \s
IsSpace(c) == c \in {" ", "\n"}

\* [a-zA-Z0-9\.]
IsModuleChar(c) == c \in {"A", "B", "x", "y", "s", "d", "e", "p", "iheartla"}

\* [^:>'"]
IsSymbolChar(c) == c \notin {":", SpanOpen, SpanClose, SpanEnd}

\* [^\n<3\s]: the word stops at the heart, at white space, and in the
\* opening of a span tag, at the blank after "<span", where no newline follows
IsContextChar(c) == ~IsSpace(c) /\ c # Heart /\ c # SpanOpen

Lines ==
    { <<Heart, ":", "A", "\n">>,
      <<Heart, ":", " ", "B", "\n">>,
      <<Heart, ":", "\n">>,
      <<Fence, "iheartla", "\n", "x", "\n", Fence, "\n">>,
      <<Fence, "iheartla", "(", "B", ")", "\n", "y", "\n", Fence, "\n">>,
      <<Heart, "x", Heart, "\n">>,
      <<Heart, "B", ":", "y", Heart, "\n">>,
      <<SpanOpen, "s", SpanClose, "d", SpanEnd, "\n">>,
      <<SpanOpen, "B", ":", "s", SpanClose, "e", SpanEnd, "\n">>,
      <<"p", "\n">> }

PreDocs == UNION {[1..n -> Lines] : n \in 0..MaxLines}

RECURSIVE Flatten(_)
Flatten(ls) == IF ls = <<>> THEN <<>> ELSE Head(ls) \o Flatten(Tail(ls))

\* the text handle_context_pre is called with
PreText == Flatten(pre_lines)

\* the end of the longest run of \s, of [ ], of [a-zA-Z0-9\.], of [^:>'"] and
\* of [^\n<3\s] that starts at i: the first place past the run
RECURSIVE SkipSpace(_, _)
SkipSpace(t, i) ==
    IF i <= Len(t) /\ IsSpace(t[i]) THEN SkipSpace(t, i + 1) ELSE i

RECURSIVE SkipBlank(_, _)
SkipBlank(t, i) ==
    IF i <= Len(t) /\ t[i] = " " THEN SkipBlank(t, i + 1) ELSE i

RECURSIVE SkipModule(_, _)
SkipModule(t, i) ==
    IF i <= Len(t) /\ IsModuleChar(t[i]) THEN SkipModule(t, i + 1) ELSE i

RECURSIVE SkipSymbol(_, _)
SkipSymbol(t, i) ==
    IF i <= Len(t) /\ IsSymbolChar(t[i]) THEN SkipSymbol(t, i + 1) ELSE i

RECURSIVE SkipContext(_, _)
SkipContext(t, i) ==
    IF i <= Len(t) /\ IsContextChar(t[i]) THEN SkipContext(t, i + 1) ELSE i

\* the place of the last newline among t[i], ..., t[j - 1], 0 when there is none
LastNewline(t, i, j) ==
    LET S == {k \in i..(j - 1) : t[k] = "\n"}
    IN  IF S = {} THEN 0 ELSE CHOOSE k \in S : \A l \in S : l <= k

NoMatch == [start |-> 0, end |-> 0, context |-> <<>>]

\* CONTEXT_RE from the heart at h on: (\s*):(\s*)(?P<context>[^\n<3\s]*)(\s*)
\* and then (?=(\n)+).  Every \s* is greedy and crosses newlines: the one
\* after the colon first takes the whole run and the context the whole word
\* behind it, on whatever line that word is; only when no newline follows
\* that word does the match fall back to the empty context.  The match ends
\* before the last newline of the run it stops in (end is that newline).
ContextTail(t, h) ==
    LET c   == SkipSpace(t, h + 1)
        a   == c + 1
        b   == SkipSpace(t, a)
        z   == SkipContext(t, b)
        w   == SkipSpace(t, z)
        nl  == LastNewline(t, z, w)
        nl0 == LastNewline(t, a, b)
    IN  IF c > Len(t) \/ t[c] # ":" THEN NoMatch
        ELSE IF nl # 0 THEN [start |-> h, end |-> nl, context |-> SubSeq(t, b, z - 1)]
        ELSE IF nl0 # 0 THEN [start |-> h, end |-> nl0, context |-> <<>>]
        ELSE NoMatch

\* the first match of CONTEXT_RE at or after pos: the leading (\s*) takes the
\* white space from pos up to the heart
RECURSIVE NextContext(_, _)
NextContext(t, pos) ==
    IF pos > Len(t) THEN NoMatch
    ELSE LET h == SkipSpace(t, pos)
         IN  IF h <= Len(t) /\ t[h] = Heart /\ ContextTail(t, h).end # 0
             THEN [ContextTail(t, h) EXCEPT !.start = pos]
             ELSE NextContext(t, pos + 1)

\* RAW_CODE_BLOCK_RE at s: a fence at the start of a line, [ ]*, iheartla,
\* \s*, \n.  The last place of the match, 0 when there is none.
RawCodeBlockAt(t, s) ==
    IF ~(s = 1 \/ t[s - 1] = "\n") \/ t[s] # Fence THEN 0
    ELSE LET i == SkipBlank(t, s + 1)
         IN  IF i > Len(t) \/ t[i] # "iheartla" THEN 0
             ELSE LastNewline(t, i + 1, SkipSpace(t, i + 1))

\* for m in RAW_CODE_BLOCK_RE.finditer(text): text = text.replace(...)
\* the matches are those of the text the loop started with
RECURSIVE RawCodeLoop(_, _, _, _)
RawCodeLoop(orig, pos, txt, context) ==
    IF pos > Len(orig) THEN txt
    ELSE LET z == RawCodeBlockAt(orig, pos)
         IN  IF z = 0 THEN RawCodeLoop(orig, pos + 1, txt, context)
             ELSE RawCodeLoop(orig, z + 1,
                      str_replace(txt, SubSeq(orig, pos, z),
                          <<orig[pos], "iheartla", "(">> \o context \o <<")", "\n">>),
                      context)

handle_raw_code(txt, context) == RawCodeLoop(txt, 1, txt, context)

\* RAW_CODE_INLINE_RE at s: a heart, [^<3]*, a heart.  The last place of the
\* match, 0 when there is none.
RawInlineAt(t, s) == IF t[s] # Heart THEN 0 ELSE IndexFrom(t, Heart, s + 1)

\* a fullmatch that never succeeds
InlineNeverFullMatch(g) == g = <<>>

\* INLINE_RE.fullmatch(g), g being a match of RAW_CODE_INLINE_RE: \s*, the
\* module, \s*, a colon, and a code that holds no newline
InlineFullMatch(g) ==
    LET k == SkipSpace(g, SkipModule(g, SkipSpace(g, 2)))
    IN  /\ k < Len(g)
        /\ g[k] = ":"
        /\ \A q \in (k + 1)..(Len(g) - 1) : g[q] # "\n"

RECURSIVE RawInlineLoop(_, _, _, _)
RawInlineLoop(orig, pos, txt, context) ==
    IF pos > Len(orig) THEN txt
    ELSE LET z == RawInlineAt(orig, pos)
             g == SubSeq(orig, pos, z)
         IN  IF z = 0 THEN RawInlineLoop(orig, pos + 1, txt, context)
             ELSE RawInlineLoop(orig, z + 1,
                      IF InlineFullMatch(g) THEN txt
                      ELSE str_replace(txt, g,
                               <<Heart, " ">> \o context \o <<":">>
                               \o SubSeq(g, 2, Len(g) - 1) \o <<Heart>>),
                      context)

handle_inline_raw_code(txt, context) == RawInlineLoop(txt, 1, txt, context)

\* SPAN_SIMPLE_RE at s: the opening of the tag, the symbol [^:>'"]*, the
\* closing quote and bracket, the code up to the first </span>
SpanSimpleAt(t, s) ==
    LET j == SkipSymbol(t, s + 1)
        z == IndexFrom(t, SpanEnd, j + 1)
    IN  IF t[s] # SpanOpen \/ j > Len(t) \/ t[j] # SpanClose \/ z = 0
        THEN [end |-> 0, symbol |-> <<>>, code |-> <<>>]
        ELSE [end |-> z, symbol |-> SubSeq(t, s + 1, j - 1),
              code |-> SubSeq(t, j + 1, z - 1)]

RECURSIVE RawSpanLoop(_, _, _, _)
RawSpanLoop(orig, pos, txt, context) ==
    IF pos > Len(orig) THEN txt
    ELSE LET sp == SpanSimpleAt(orig, pos)
         IN  IF sp.end = 0 THEN RawSpanLoop(orig, pos + 1, txt, context)
             ELSE RawSpanLoop(orig, sp.end + 1,
                      str_replace(txt, SubSeq(orig, pos, sp.end),
                          <<SpanOpen>> \o context \o <<":">> \o sp.symbol
                          \o <<SpanClose, " ">> \o sp.code \o <<" ", SpanEnd>>),
                      context)

handle_raw_span_code(txt, context) == RawSpanLoop(txt, 1, txt, context)

----------------------------------------------------------------------------
(* handle_context_pre as a state machine *)

InitCtx ==
    /\ pc = "split"
    /\ IdleDep
    /\ IdleColor
    /\ IdleAgg
    /\ IdleJson
    /\ IdleLabel
    /\ pre_lines \in PreDocs
    /\ start_index = 0
    /\ context_list = << <<>> >>
    /\ matched_list = << <<>> >>
    /\ text_list = <<>>
    /\ index = 0
    /\ full_text = <<>>

\* one iteration of "for m in self.CONTEXT_RE.finditer(text)", or, the
\* matches exhausted, the append of the last segment
SplitContext ==
    /\ pc = "split"
    /\ LET mt == NextContext(PreText, start_index + 1)
       IN  IF mt.end # 0
           THEN /\ context_list' = Append(context_list, mt.context)
                /\ matched_list' = Append(matched_list, SubSeq(PreText, mt.start, mt.end - 1))
                /\ text_list' = Append(text_list, SubSeq(PreText, start_index + 1, mt.start - 1))
                /\ start_index' = mt.end - 1
                /\ pc' = pc
           ELSE /\ text_list' = Append(text_list, SubSeq(PreText, start_index + 1, Len(PreText)))
                /\ pc' = "raw_code"
                /\ UNCHANGED <<context_list, matched_list, start_index>>
    /\ UNCHANGED <<pre_lines, index, full_text>>
    /\ UNCHANGED notCtx

\* full_text += matched_list[index]; text_list[index] = handle_raw_code(...)
HandleRawCode ==
    /\ pc = "raw_code"
    /\ index < Len(text_list)
    /\ full_text' = full_text \o matched_list[index + 1]
    /\ text_list' = [text_list EXCEPT
                        ![index + 1] = handle_raw_code(@, context_list[index + 1])]
    /\ pc' = "inline_raw"
    /\ UNCHANGED <<pre_lines, start_index, context_list, matched_list, index>>
    /\ UNCHANGED notCtx

\* text_list[index] = handle_inline_raw_code(...)
HandleInlineRawCode ==
    /\ pc = "inline_raw"
    /\ text_list' = [text_list EXCEPT
                        ![index + 1] = handle_inline_raw_code(@, context_list[index + 1])]
    /\ pc' = "raw_span"
    /\ UNCHANGED <<pre_lines, start_index, context_list, matched_list, index, full_text>>
    /\ UNCHANGED notCtx

\* text_list[index] = handle_raw_span_code(...); full_text += text_list[index]
HandleRawSpanCode ==
    /\ pc = "raw_span"
    /\ LET seg == handle_raw_span_code(text_list[index + 1], context_list[index + 1])
       IN  /\ text_list' = [text_list EXCEPT ![index + 1] = seg]
           /\ full_text' = full_text \o seg
    /\ index' = index + 1
    /\ pc' = "raw_code"
    /\ UNCHANGED <<pre_lines, start_index, context_list, matched_list>>
    /\ UNCHANGED notCtx

\* return full_text
ReturnFullText ==
    /\ pc = "raw_code"
    /\ index = Len(text_list)
    /\ pc' = "done"
    /\ UNCHANGED ctxVars
    /\ UNCHANGED notCtx

NextCtx ==
    SplitContext \/ HandleRawCode \/ HandleInlineRawCode \/ HandleRawSpanCode
    \/ ReturnFullText

SpecCtx == InitCtx /\ [][NextCtx]_vars

----------------------------------------------------------------------------
(* Claims about handle_context_pre *)

\* a line that is a context marker, and the identifier it names
IsMarker(l) == l[1] = Heart /\ l[2] = ":"

MarkerContext(l) == SelectSeq(SubSeq(l, 3, Len(l)), LAMBDA c : ~IsSpace(c))

\* the context of the nearest marker before line p, the empty string when
\* no marker precedes it
ContextAt(p) ==
    LET M == {q \in 1..(p - 1) : IsMarker(pre_lines[q])}
    IN  IF M = {} THEN <<>>
        ELSE MarkerContext(pre_lines[CHOOSE q \in M : \A r \in M : r <= q])

\* the lines that hold a fenced opener, an inline block or a highlighted span
\* without a context
IsRawFence(l) == l[1] = Fence /\ l[2] = "iheartla" /\ l[3] = "\n"
IsRawInline(l) == l[1] = Heart /\ ":" \notin Range(l)
IsRawSpan(l) == l[1] = SpanOpen /\ l[3] = SpanClose
IsRaw(l) == IsRawFence(l) \/ IsRawInline(l) \/ IsRawSpan(l)

\* a line without a context as it reads once the context c is written in
Contextualized(l, c) ==
    IF IsRawFence(l)
    THEN <<Fence, "iheartla", "(">> \o c \o <<")">> \o SubSeq(l, 3, Len(l))
    ELSE IF IsRawInline(l)
    THEN <<Heart, " ">> \o c \o <<":">> \o Tail(l)
    ELSE <<SpanOpen>> \o c \o <<":", l[2], SpanClose, " ", l[4], " ", SpanEnd, "\n">>

Occurs(sub, t) ==
    \E i \in 1..(Len(t) - Len(sub) + 1) : SubSeq(t, i, i + Len(sub) - 1) = sub

RawLines == {p \in 1..Len(pre_lines) : IsRaw(pre_lines[p])}

\* C5: in the text handle_context_pre returns, every fenced opener, inline
\* block and highlighted span that had no context carries the context of the
\* nearest marker before it (the empty string when there is none), and it
\* carries no other context unless an equal block of another segment does
C5_ContextOfNearestMarker ==
    (pc = "done") =>
        \A p \in RawLines :
            /\ Occurs(Contextualized(pre_lines[p], ContextAt(p)), full_text)
            /\ \A c \in {<<>>, <<"A">>, <<"B">>} :
                  Occurs(Contextualized(pre_lines[p], c), full_text)
                  => \E q \in RawLines : /\ pre_lines[q] = pre_lines[p]
                                          /\ ContextAt(q) = c

----------------------------------------------------------------------------
(* handle_prose_label and handle_math.  A text is a sequence of characters; *)
(* \proselabel and \prosedeflabel each stand as one character.              *)

ProseLabel == "\\proselabel"
ProseDefLabel == "\\prosedeflabel"

\* units a segment is written with
MaxText == 6

Units ==
    { <<"$">>, <<" ">>, <<"a">>,
      <<ProseLabel, "{", "a", "}">>,
      <<ProseDefLabel, "{", " ", "b", " ", "}">> }

SegTexts == {Flatten(us) : us \in UNION {[1..n -> Units] : n \in 0..MaxText}}

Contexts == {<<>>, <<"c">>}

SymLists == { << <<"a">> >>, << <<"a">>, <<"b">> >> }

\* the character at place i, the empty string outside the text
At(t, i) == IF i >= 1 /\ i <= Len(t) THEN t[i] ELSE ""

IsLabel(c) == c \in {ProseLabel, ProseDefLabel}

\* [^{}$]
IsLabelSymbolChar(c) == c \notin {"{", "}", "$"}

RECURSIVE SkipLabelSymbol(_, _)
SkipLabelSymbol(t, i) ==
    IF i <= Len(t) /\ IsLabelSymbolChar(t[i]) THEN SkipLabelSymbol(t, i + 1) ELSE i

\* the class PROSE_RE at s: \prose(def)?label, a brace, the symbol [^{}$]*, a
\* brace, and no brace after it.  The last place of the match, 0 when none.
ProseAt(t, s) ==
    LET j == SkipLabelSymbol(t, s + 2)
    IN  IF IsLabel(t[s]) /\ At(t, s + 1) = "{" /\ At(t, j) = "}" /\ At(t, j + 1) # "{"
        THEN j ELSE 0

\* the two-argument label: {\prose(def)label{context}{{symbol}}}
LabelOf(label, context, symbol) ==
    <<"{", label, "{">> \o context \o <<"}", "{", "{">> \o symbol \o <<"}", "}", "}">>

\* for m in self.PROSE_RE.finditer(text): text = text.replace(m.group(), ...)
RECURSIVE ProseLoop(_, _, _, _)
ProseLoop(orig, pos, txt, context) ==
    IF pos > Len(orig) THEN txt
    ELSE LET j == ProseAt(orig, pos)
         IN  IF j = 0 THEN ProseLoop(orig, pos + 1, txt, context)
             ELSE ProseLoop(orig, j + 1,
                      str_replace(txt, SubSeq(orig, pos, j),
                          LabelOf(orig[pos], context, SubSeq(orig, pos + 2, j - 1))),
                      context)

handle_prose_label(txt, context) == ProseLoop(txt, 1, txt, context)

\* MATH_RE, the opening: one or two dollars, neither escaped nor next to a
\* further dollar.  The length of the delimiter that opens at s, 0 when none.
MathOpen(t, s) ==
    IF t[s] # "$" \/ At(t, s - 1) \in {"$", BS} THEN 0
    ELSE IF At(t, s + 1) # "$" THEN 1
    ELSE IF At(t, s + 2) # "$" THEN 2
    ELSE 0

\* MATH_RE, the closing: the first place from i on where the same delimiter
\* stands, neither escaped nor next to a further dollar; 0 when none
RECURSIVE MathCloseFrom(_, _, _)
MathCloseFrom(t, d, i) ==
    IF i + d - 1 > Len(t) THEN 0
    ELSE IF /\ \A k \in 0..(d - 1) : t[i + k] = "$"
            /\ At(t, i - 1) \notin {"$", BS}
            /\ At(t, i + d) # "$"
         THEN i
         ELSE MathCloseFrom(t, d, i + 1)

NoMath == [start |-> 0, end |-> 0, delim |-> <<>>, code |-> <<>>]

MathAt(t, s) ==
    LET d == MathOpen(t, s)
        z == MathCloseFrom(t, d, s + d)
    IN  IF d = 0 THEN NoMath
        ELSE IF z = 0 THEN NoMath
        ELSE [start |-> s, end |-> z + d - 1, delim |-> SubSeq(t, s, s + d - 1),
              code |-> SubSeq(t, s + d, z - 1)]

\* the first match of MATH_RE at or after pos
RECURSIVE NextMath(_, _)
NextMath(t, pos) ==
    IF pos > Len(t) THEN NoMath
    ELSE IF MathAt(t, pos).end # 0 THEN MathAt(t, pos)
    ELSE NextMath(t, pos + 1)

\* a-z and the letter classes of handle_math's pattern
IsLetter(c) == c \in {"a", "b", "c"}

\* [letters _{()\s]
InLabelClass(c) == IsLetter(c) \/ IsSpace(c) \/ c \in {"_", "{", "(", ")"}

\* the first alternative of the look-behind matches content[s..p - 1]: the
\* label, an optional {letters}, a brace, and characters of the class
LabelPrefix(content, s, p) ==
    /\ IsLabel(content[s])
    /\ s + 1 <= p - 1
    /\ content[s + 1] = "{"
    /\ \/ \A q \in (s + 2)..(p - 1) : InLabelClass(content[q])
       \/ \E k \in (s + 3)..(p - 2) :
             /\ content[k] = "}"
             /\ \A q \in (s + 2)..(k - 1) : IsLetter(content[q]) \/ IsSpace(content[q])
             /\ content[k + 1] = "{"
             /\ \A q \in (k + 2)..(p - 1) : InLabelClass(content[q])

\* handle_math's pattern matches sym at p: no label prefix and no character
\* but white space stands before it, none but white space after it
TargetAt(content, sym, p) ==
    /\ p + Len(sym) - 1 <= Len(content)
    /\ SubSeq(content, p, p + Len(sym) - 1) = sym
    /\ ~IsSpace(At(content, p - 1)) => p = 1
    /\ ~IsSpace(At(content, p + Len(sym))) => p + Len(sym) > Len(content)
    /\ ~\E s \in 1..(p - 1) : LabelPrefix(content, s, p)

FirstTarget(content, sym) ==
    LET S == {p \in 1..Len(content) : TargetAt(content, sym, p)}
    IN  IF S = {} THEN 0 ELSE CHOOSE p \in S : \A q \in S : p <= q

\* a replacement by value: content.replace(target.group(), label)
WrapByValue(content, sym, context, p) ==
    str_replace(content, sym, LabelOf(ProseLabel, context, sym))

\* content[:target.start()] + label + content[target.end():]
WrapAt(content, sym, context, p) ==
    SubSeq(content, 1, p - 1) \o LabelOf(ProseLabel, context, sym)
    \o SubSeq(content, p + Len(sym), Len(content))

\* while changed: replace the first target by the label, and scan again
RECURSIVE WrapAll(_, _, _)
WrapAll(content, sym, context) ==
    LET p == FirstTarget(content, sym)
    IN  IF p = 0 THEN content
        ELSE WrapAll(WrapAt(content, sym, context, p), sym, context)

\* for sym in sym_list
RECURSIVE WrapSyms(_, _, _)
WrapSyms(content, syms, context) ==
    IF syms = <<>> THEN content
    ELSE WrapSyms(WrapAll(content, Head(syms), context), Tail(syms), context)

----------------------------------------------------------------------------
(* handle_prose_label then handle_math, applied twice, as a state machine *)

InitLabel ==
    /\ pc = "prose"
    /\ IdleDep
    /\ IdleColor
    /\ IdleAgg
    /\ IdleJson
    /\ IdleCtx
    /\ seg_text0 \in SegTexts
    /\ seg_context \in Contexts
    /\ seg_syms \in SymLists
    /\ seg_text = seg_text0
    /\ math_src = <<>>
    /\ math_pos = 0
    /\ pass = 1
    /\ once_text = <<>>
    /\ wraps = 0

\* text = self.handle_prose_label(text, context), and the call of handle_math
HandleProseLabel ==
    /\ pc = "prose"
    /\ seg_text' = handle_prose_label(seg_text, seg_context)
    /\ math_src' = seg_text'
    /\ math_pos' = 0
    /\ pc' = "math"
    /\ UNCHANGED <<seg_text0, seg_context, seg_syms, pass, once_text, wraps>>
    /\ UNCHANGED notLabel

\* one iteration of "for m in self.MATH_RE.finditer(text)"
HandleMathSpan ==
    /\ pc = "math"
    /\ LET mt == NextMath(math_src, math_pos + 1)
           content == WrapSyms(mt.code, seg_syms, seg_context)
       IN  /\ mt.end # 0
           /\ math_pos' = mt.end
           /\ seg_text' = IF content # mt.code
                          THEN str_replace(seg_text, SubSeq(math_src, mt.start, mt.end),
                                           mt.delim \o content \o mt.delim)
                          ELSE seg_text
    /\ UNCHANGED <<pc, seg_text0, seg_context, seg_syms, math_src, pass, once_text, wraps>>
    /\ UNCHANGED notLabel

\* return text: the first application hands its text to the second
ReturnMath ==
    /\ pc = "math"
    /\ NextMath(math_src, math_pos + 1).end = 0
    /\ IF pass = 1
       THEN once_text' = seg_text /\ pass' = 2 /\ pc' = "prose"
       ELSE pc' = "done" /\ UNCHANGED <<once_text, pass>>
    /\ UNCHANGED <<seg_text0, seg_context, seg_syms, seg_text, math_src, math_pos, wraps>>
    /\ UNCHANGED notLabel

NextLabel == HandleProseLabel \/ HandleMathSpan \/ ReturnMath

SpecLabel == InitLabel /\ [][NextLabel]_vars

----------------------------------------------------------------------------
(* Claims about handle_prose_label and handle_math *)

\* C6: handle_prose_label followed by handle_math, applied a second time with
\* the same context and symbol list to the text the first application
\* returned, returns that text unchanged
C6_LabelInsertionIdempotent ==
    (pc = "done") => seg_text = once_text

----------------------------------------------------------------------------
(* Claims about SymNode.add_neighbors *)

NoRepeat(l) == \A i \in 1..Len(l) : \A j \in 1..Len(l) : l[i] = l[j] => i = j

IsPrefix(l, k) == Len(l) <= Len(k) /\ SubSeq(k, 1, Len(l)) = l

\* C11: whatever expressions get_sym_dict has passed to add_neighbors, no
\* neighbour list holds its node's own name or a name twice, and a call only
\* appends: the names already in the list stay as they are, so a name that
\* is already present adds nothing
C11_NeighboursNoSelfNoRepeat ==
    /\ [](\A u \in Keys : u \notin Range(node_dict[u]) /\ NoRepeat(node_dict[u]))
    /\ [][\A u \in Keys : IsPrefix(node_dict[u], node_dict'[u])]_vars

\* C11 witness: two expressions consumed over two symbols, the second of
\* which could only name the node itself or a neighbour already present
C11_Witness ==
    /\ pc = "build"
    /\ n_expr >= 2
    /\ node_dict = << <<2>>, <<1>> >>

----------------------------------------------------------------------------
(* Claims about the markers of handle_context_pre *)

\* marker_0 + seg_0 + marker_1 + seg_1 + ...
Interleave(ms, ts) == Flatten([i \in 1..Len(ts) |-> ms[i] \o ts[i]])

\* C12: the split puts every character of the text in a marker or in a
\* segment, in place; the markers are not touched afterwards and the text
\* returned is marker_0 + T(seg_0) + marker_1 + T(seg_1) + ..., marker_0 being
\* empty; on a document without a block or span that lacks a context the
\* text returned is the text passed in
C12_MarkersReemitted ==
    /\ []((pc = "raw_code" /\ index = 0)
              => /\ Len(matched_list) = Len(text_list)
                 /\ matched_list[1] = <<>>
                 /\ Interleave(matched_list, text_list) = PreText)
    /\ [][pc # "split" => matched_list' = matched_list]_vars
    /\ [](pc = "done" => full_text = Interleave(matched_list, text_list))
    /\ []((pc = "done" /\ RawLines = {}) => full_text = PreText)

\* C12 witness: a returned document of two markers and a block that names
\* its module, and no block or span without a context
C12_Witness ==
    /\ pc = "done"
    /\ RawLines = {}
    /\ Len(matched_list) = 3
    /\ \E p \in 1..Len(pre_lines) : pre_lines[p] = <<Heart, "B", ":", "y", Heart, "\n">>

----------------------------------------------------------------------------
(* Claims about the sort of assign_colors *)

\* C13: the sorted sym_list is a permutation of the keys of node_dict with
\* non-decreasing neighbour counts, and the symbols are coloured in exactly
\* that order: the p-th colour of the used palette is that of the p-th symbol
C13_SortedByDegree ==
    pc \in {"color", "done"} =>
        /\ Len(sym_list) = Len(node_dict)
        /\ Range(sym_list) = Keys
        /\ \A p \in 1..Len(sym_list) : \A q \in p..Len(sym_list) :
              Degree(node_dict, sym_list[p]) <= Degree(node_dict, sym_list[q])
        /\ Len(pallette) = cur
        /\ \A p \in 1..Len(sym_list) :
              color_dict[sym_list[p]] = IF p <= cur THEN pallette[p] ELSE "None"

\* C13 witness: a finished colouring of symbols with three different
\* neighbour counts, inserted in an order the sort had to change
C13_Witness ==
    /\ pc = "done"
    /\ Cardinality({Degree(node_dict, u) : u \in Keys}) >= 3
    /\ \E u \in Keys : \E v \in Keys :
          u < v /\ Degree(node_dict, u) > Degree(node_dict, v)

\* C14: two symbols with the same neighbour count are processed in the order
\* they were inserted in node_dict (symbols are numbered in that order)
C14_TiesKeepInsertionOrder ==
    pc \in {"color", "done"} =>
        \A p \in 1..Len(sym_list) : \A q \in (p + 1)..Len(sym_list) :
            Degree(node_dict, sym_list[p]) = Degree(node_dict, sym_list[q])
                => sym_list[p] < sym_list[q]

----------------------------------------------------------------------------
(* Claims about the attribution of raw texts *)

\* the occurrences of the module being replaced to which raw_text is attributed
AttributedTo(raw_text) ==
    {k \in 1..Len(index_dict) : raw_text \in Range(index_dict[k])}

\* the occurrences of the module being replaced whose payload holds raw_text
Holding(raw_text) ==
    {k \in 1..Len(file_dict[mod_i + 1].code_list) :
        raw_text \in Range(file_dict[mod_i + 1].code_list[k])}

\* C15: every raw text of the compiler's raw-to-compiled map is attributed to
\* at most one occurrence of the module, the lowest-index occurrence whose
\* payload contains it, and is listed there once, so that no compiled
\* fragment is assigned to two occurrences of the same module
C15_AttributedToLowestOccurrence ==
    pc = "replace" =>
       /\ Len(index_dict) = Len(file_dict[mod_i + 1].code_list)
       /\ \A k \in 1..Len(index_dict) :
             NoRepeat(index_dict[k]) /\ Range(index_dict[k]) \subseteq Range(expr_dict)
       /\ \A r \in Range(expr_dict) :
             /\ Cardinality(AttributedTo(r)) <= 1
             /\ AttributedTo(r) =
                   IF Holding(r) = {} THEN {}
                   ELSE {CHOOSE k \in Holding(r) : \A j \in Holding(r) : k <= j}

C15_Witness ==
    /\ pc = "replace"
    /\ \E r \in Range(expr_dict) : Cardinality(Holding(r)) >= 2
    /\ \E r \in Range(expr_dict) : Holding(r) = {}
    /\ Len(expr_dict) = 2

----------------------------------------------------------------------------
(* get_sym_dict: the symbol table and the dependency pass *)

(* Names of symbols and modules are strings of characters, as in the      *)
(* serializer.  node_dict is here a function from the names registered to  *)
(* their neighbour lists, and sym_dict the list of SymData in insertion    *)
(* order.                                                                  *)

Dependence(module, name_list) == [module |-> module, name_list |-> name_list]

\* the import statements of module name: none, or one that imports s, or s
\* and t, from another module of the document or from a module q that is
\* not part of it
Dependences(name) ==
    {<<>>}
    \cup {<<Dependence(mo, nl)>> :
             mo \in {<<"m">>, <<"n">>, <<"q">>} \ {name},
             nl \in {<< <<"s">> >>, << <<"s">>, <<"t">> >>}}

Equation(name, parameters, definition, func_data_dict, dependence) ==
    [name |-> name, parameters |-> parameters, definition |-> definition,
     func_data_dict |-> func_data_dict, dependence |-> dependence,
     expr_dict |-> IF Len(parameters \o definition) > 1
                   THEN <<parameters \o definition>> ELSE <<>>]

\* what the compiler may return for module name: its parameters and its
\* definitions share no name, a local function f or none, and one
\* expression that holds every parameter and definition when there are two
Equations(name) ==
    {Equation(name, pd[1], pd[2], fd, de) :
        pd \in {<< <<>>, <<>> >>, << << <<"s">> >>, <<>> >>, << <<>>, << <<"s">> >> >>,
                << << <<"s">> >>, << <<"t">> >> >>, << <<>>, << <<"s">>, <<"t">> >> >>},
        fd \in {<<>>, << <<"f">> >>},
        de \in Dependences(name)}

EquationLists ==
    {<<e>> : e \in Equations(<<"m">>)}
    \cup {<<e, f>> : e \in Equations(<<"m">>), f \in Equations(<<"n">>)}

\* SymEquationData(la_type=..., desc=..., module_name=equation.name, is_defined=...)
NewSymEquationData(module_name, is_defined) ==
    [SymEquationData(None, <<>>) EXCEPT !.module_name = module_name,
                                        !.is_defined = is_defined]

\* the position of name among the keys of sym_dict, 0 when it is no key
SymIndex(sd, name) ==
    LET hits == {k \in 1..Len(sd) : sd[k].sym_name = name}
    IN  IF hits = {} THEN 0 ELSE CHOOSE k \in hits : TRUE

\* the body of the three registration loops for one name
Register(sd, name, module_name, is_defined) ==
    LET k == SymIndex(sd, name)
        sym_eq_data == NewSymEquationData(module_name, is_defined)
    IN  IF k = 0 THEN Append(sd, SymData(name, <<sym_eq_data>>))
        ELSE [sd EXCEPT ![k].sym_equation_list = Append(@, sym_eq_data)]

RECURSIVE RegisterAll(_, _, _, _)
RegisterAll(sd, names, module_name, is_defined) ==
    IF names = <<>> THEN sd
    ELSE RegisterAll(Register(sd, Head(names), module_name, is_defined),
                     Tail(names), module_name, is_defined)

\* node_dict[name] = SymNode(name) for every name that is not yet a key
NewNodes(nd, names) ==
    [n \in DOMAIN nd \cup Range(names) |-> IF n \in DOMAIN nd THEN nd[n] ELSE <<>>]

\* "expr list": every value of equation.expr_dict
RECURSIVE AddExprs(_, _)
AddExprs(nd, exprs) ==
    IF exprs = <<>> THEN nd
    ELSE AddExprs(AddExprFrom(nd, Head(exprs), 1), Tail(exprs))

\* the names the second loop passes, in its order: for every equation, every
\* dependence and every name of its name_list
RECURSIVE ImportsOf(_, _)
ImportsOf(name, dependence) ==
    IF dependence = <<>> THEN <<>>
    ELSE [i \in 1..Len(Head(dependence).name_list) |->
             [name |-> name, module |-> Head(dependence).module,
              sym |-> Head(dependence).name_list[i]]]
         \o ImportsOf(name, Tail(dependence))

RECURSIVE Imports(_)
Imports(eqs) ==
    IF eqs = <<>> THEN <<>>
    ELSE ImportsOf(Head(eqs).name, Head(eqs).dependence) \o Imports(Tail(eqs))

\* a dependency pass that marks every record of the symbol
MarkUsedAll(sym_equation_list, module, name) ==
    [j \in 1..Len(sym_equation_list) |->
        [sym_equation_list[j] EXCEPT !.used_list = Append(@, name)]]

\* for sym_equation in sym_data.sym_equation_list:
\*     if sym_equation.module_name == dependence.module: used_list.append(equation.name)
MarkUsed(sym_equation_list, module, name) ==
    [j \in 1..Len(sym_equation_list) |->
        IF sym_equation_list[j].module_name = module
        THEN [sym_equation_list[j] EXCEPT !.used_list = Append(@, name)]
        ELSE sym_equation_list[j]]

InitDep ==
    /\ pc = "register"
    /\ IdleColor
    /\ IdleAgg
    /\ IdleJson
    /\ IdleCtx
    /\ IdleLabel
    /\ equation_list \in EquationLists
    /\ eq_i = 0
    /\ imp_i = 0

\* one iteration of the first loop: the parameters, the new symbols, the
\* local functions and the expression list of one equation
RegisterEquation ==
    /\ pc = "register"
    /\ eq_i < Len(equation_list)
    /\ LET equation == equation_list[eq_i + 1]
           names    == equation.parameters \o equation.definition
                       \o equation.func_data_dict
       IN  /\ sym_dict' =
                 RegisterAll(
                     RegisterAll(
                         RegisterAll(sym_dict, equation.parameters, equation.name, FALSE),
                         equation.definition, equation.name, TRUE),
                     equation.func_data_dict, equation.name, TRUE)
           /\ node_dict' = AddExprs(NewNodes(node_dict, names), equation.expr_dict)
    /\ eq_i' = eq_i + 1
    /\ UNCHANGED <<pc, equation_list, imp_i>>
    /\ UNCHANGED <<n_expr, sym_list, cur, pallette, all_colors, color_dict, color>>
    /\ UNCHANGED <<json_i, json_list, sym_json>>
    /\ UNCHANGED <<aggVars, ctxVars, labelVars>>

\* the end of the first loop
StartSecLoop ==
    /\ pc = "register"
    /\ eq_i = Len(equation_list)
    /\ pc' = "dependence"
    /\ UNCHANGED <<colorVars, aggVars, jsonVars, ctxVars, labelVars, depVars>>

\* "sec loop": one name of a dependence; sym_dict[name] raises KeyError
\* when the name is no key
UseImport ==
    /\ pc = "dependence"
    /\ imp_i < Len(Imports(equation_list))
    /\ LET imp == Imports(equation_list)[imp_i + 1]
           k   == SymIndex(sym_dict, imp.sym)
       IN  IF k = 0
           THEN pc' = "KeyError" /\ UNCHANGED <<sym_dict, imp_i>>
           ELSE /\ sym_dict' = [sym_dict EXCEPT ![k].sym_equation_list =
                                   MarkUsed(@, imp.module, imp.name)]
                /\ imp_i' = imp_i + 1
                /\ pc' = pc
    /\ UNCHANGED <<equation_list, eq_i>>
    /\ UNCHANGED colorVars
    /\ UNCHANGED <<json_i, json_list, sym_json>>
    /\ UNCHANGED <<aggVars, ctxVars, labelVars>>

\* the end of the second loop: self.assign_colors(node_dict, sym_dict), whose
\* steps are those of SpecColor
CallAssignColors ==
    /\ pc = "dependence"
    /\ imp_i = Len(Imports(equation_list))
    /\ pc' = "assign_colors"
    /\ UNCHANGED <<colorVars, aggVars, jsonVars, ctxVars, labelVars, depVars>>

NextDep == RegisterEquation \/ StartSecLoop \/ UseImport \/ CallAssignColors

SpecDep == InitDep /\ [][NextDep]_vars

----------------------------------------------------------------------------
(* Claims about the dependency pass *)

\* C16: a step of the second loop of get_sym_dict leaves the neighbour
\* lists, the symbols and the number of records of every symbol as they
\* are, and changes no field of a record but used_list, to which it appends
\* the importing module's name in exactly those records of the imported
\* symbol whose module_name is the module the name is imported from
C16_DependencePassOnlyAppends ==
    [][pc = "dependence" =>
          /\ node_dict' = node_dict
          /\ Len(sym_dict') = Len(sym_dict)
          /\ \A k \in 1..Len(sym_dict) :
                /\ sym_dict'[k].sym_name = sym_dict[k].sym_name
                /\ Len(sym_dict'[k].sym_equation_list) = Len(sym_dict[k].sym_equation_list)
                /\ \A j \in 1..Len(sym_dict[k].sym_equation_list) :
                      LET old == sym_dict[k].sym_equation_list[j]
                          new == sym_dict'[k].sym_equation_list[j]
                          imp == Imports(equation_list)[imp_i + 1]
                      IN  /\ [new EXCEPT !.used_list = old.used_list] = old
                          /\ new.used_list =
                                IF /\ imp_i' = imp_i + 1
                                   /\ sym_dict[k].sym_name = imp.sym
                                   /\ old.module_name = imp.module
                                THEN Append(old.used_list, imp.name)
                                ELSE old.used_list]_vars

C16_Witness ==
    /\ pc = "assign_colors"
    /\ \E n \in DOMAIN node_dict : node_dict[n] # <<>>
    /\ \E k \in 1..Len(sym_dict) :
          \E i, j \in 1..Len(sym_dict[k].sym_equation_list) :
             /\ sym_dict[k].sym_equation_list[i].used_list = << <<"m">> >>
             /\ sym_dict[k].sym_equation_list[i].module_name = <<"n">>
             /\ sym_dict[k].sym_equation_list[j].used_list = <<>>
             /\ sym_dict[k].sym_equation_list[j].module_name = <<"m">>

----------------------------------------------------------------------------
(* handle_math: the rescan loop of one symbol over one math span *)

\* units the code of a math span is written with
MaxCode == 4

CodeUnits ==
    { <<" ">>, <<"a">>, <<"+">>, <<"a", " ", "a">>, <<ProseLabel, "{">>,
      LabelOf(ProseLabel, <<"c">>, <<"a">>) }

\* m.group('code')
MathCodes == {Flatten(us) : us \in UNION {[1..n -> CodeUnits] : n \in 0..MaxCode}}

\* the symbols gen_sym_list may return: a name, or a name that holds a blank
Syms == {<<"a">>, <<"a", " ", "a">>}

\* the first place at or after from where the pattern matches, 0 when none
TargetFrom(content, sym, from) ==
    LET S == {p \in from..Len(content) : TargetAt(content, sym, p)}
    IN  IF S = {} THEN 0 ELSE CHOOSE p \in S : \A q \in S : p <= q

\* PROSE_RE.finditer(content): the starts of the matches, which do not overlap
RECURSIVE Targets(_, _, _)
Targets(content, sym, from) ==
    LET p == TargetFrom(content, sym, from)
    IN  IF p = 0 THEN <<>> ELSE <<p>> \o Targets(content, sym, p + Len(sym))

InitRescan ==
    /\ pc = "rescan"
    /\ IdleDep
    /\ IdleColor
    /\ IdleAgg
    /\ IdleJson
    /\ IdleCtx
    /\ seg_text0 \in MathCodes
    /\ seg_context \in Contexts
    /\ seg_syms \in {<<sym>> : sym \in Syms}
    /\ seg_text = seg_text0
    /\ math_src = <<>>
    /\ math_pos = 0
    /\ pass = 0
    /\ once_text = <<>>
    /\ wraps = 0

\* one round of "while changed" that finds a target: the first match is
\* replaced by the label, and the scan starts again
ReplaceTarget ==
    /\ pc = "rescan"
    /\ LET p == FirstTarget(seg_text, seg_syms[1])
       IN  /\ p # 0
           /\ seg_text' = WrapAt(seg_text, seg_syms[1], seg_context, p)
    /\ wraps' = wraps + 1
    /\ UNCHANGED <<pc, seg_text0, seg_context, seg_syms, math_src, math_pos, pass,
                   once_text>>
    /\ UNCHANGED notLabel

\* a loop that ends after its first replacement
ExitAfterFirstWrap ==
    /\ pc = "rescan"
    /\ FirstTarget(seg_text, seg_syms[1]) = 0 \/ wraps >= 1
    /\ pc' = "done"
    /\ UNCHANGED <<colorVars, aggVars, jsonVars, ctxVars, labelVars, depVars>>

\* the round that finds no target: changed stays False and the loop ends
ExitRescan ==
    /\ pc = "rescan"
    /\ FirstTarget(seg_text, seg_syms[1]) = 0
    /\ pc' = "done"
    /\ UNCHANGED <<colorVars, aggVars, jsonVars, ctxVars, labelVars, depVars>>

NextRescan == ReplaceTarget \/ ExitRescan

\* the loop is sequential code: a round that can be taken is taken
SpecRescan == InitRescan /\ [][NextRescan]_vars /\ WF_vars(NextRescan)

----------------------------------------------------------------------------
(* Claims about the rescan loop *)

\* content with the matches at the places ts, taken from the last to the
\* first, each replaced by the label
RECURSIVE Labelled(_, _, _, _)
Labelled(content, sym, context, ts) ==
    IF ts = <<>> THEN content
    ELSE LET p == ts[Len(ts)]
         IN  Labelled(SubSeq(content, 1, p - 1)
                      \o <<"{", ProseLabel, "{">> \o context \o <<"}", "{", "{">>
                      \o sym \o <<"}", "}", "}">>
                      \o SubSeq(content, p + Len(sym), Len(content)),
                      sym, context, SubSeq(ts, 1, Len(ts) - 1))

\* C17 (as stated): when the loop of a symbol ends, only the last
\* white-space-delimited occurrence of the symbol in the span is wrapped in
\* a label and the other occurrences are as they were
C17_OnlyLastOccurrenceWrapped ==
    pc = "done" =>
       LET ts == Targets(seg_text0, seg_syms[1], 1)
       IN  seg_text = Labelled(seg_text0, seg_syms[1], seg_context,
                               IF ts = <<>> THEN <<>> ELSE <<ts[Len(ts)]>>)

\* C17 (amended): when the loop of a symbol ends, every match of the
\* pattern in the span, that is every white-space-delimited occurrence of
\* the symbol that stands in no label, is wrapped in a label, the rest of
\* the span is as it was, and no match is left
C17_EveryOccurrenceWrapped ==
    pc = "done" =>
       /\ seg_text = Labelled(seg_text0, seg_syms[1], seg_context,
                              Targets(seg_text0, seg_syms[1], 1))
       /\ Targets(seg_text, seg_syms[1], 1) = <<>>

C17_Witness ==
    /\ pc = "done"
    /\ Len(Targets(seg_text0, seg_syms[1], 1)) = 2
    /\ seg_syms[1] = <<"a">>
    /\ "+" \in Range(seg_text0)

\* C18: the rescan loop ends; every replacement lowers the number of matches
\* of the symbol's pattern by exactly one, the label put in making no new
\* match, and the loop has made as many replacements as the span had matches
\* when it began
C18_RescanTerminates ==
    /\ <>(pc = "done")
    /\ [][seg_text' # seg_text =>
             Len(Targets(seg_text', seg_syms[1], 1))
                 = Len(Targets(seg_text, seg_syms[1], 1)) - 1]_vars
    /\ [][wraps' # wraps => seg_text' # seg_text /\ wraps' = wraps + 1]_vars
    /\ [](pc = "done" => wraps = Len(Targets(seg_text0, seg_syms[1], 1)))

C18_Witness ==
    /\ pc = "done"
    /\ wraps = 2
    /\ seg_syms[1] = <<"a", " ", "a">>
    /\ seg_context = <<"c">>

----------------------------------------------------------------------------
(* Claims about the used_equations field *)

\* the text of sym_json between the j-th "used_equations": and the brace
\* that closes the record
UsedWritten(j) ==
    LET open  == PlacesOf(", \"used_equations\":")[j]
        close == CHOOSE p \in (open + 1)..Len(sym_json) :
                     /\ sym_json[p] = "}"
                     /\ \A q \in (open + 1)..(p - 1) : sym_json[q] # "}"
    IN  SubSeq(sym_json, open + 1, close - 1)

\* a JSON list of strings: the names between double quotes, separated by
\* commas, between brackets
Bracketed(used_list) ==
    IF used_list = <<>> THEN <<"[]">>
    ELSE <<"[", "\"">> \o str_join(<<"\",\"">>, used_list) \o <<"\"", "]">>

\* C19: in the text get_sym_json returns, the used_equations field of every
\* record is one bracketed list of the modules of used_list in append
\* order, whether used_list is empty or not
C19_UsedEquationsBracketed ==
    pc = "done" =>
       /\ Len(PlacesOf(", \"used_equations\":")) = Len(Records)
       /\ \A j \in 1..Len(Records) : UsedWritten(j) = Bracketed(Records[j].used_list)

====
